---- MODULE Spec2Model ----
(***************************************************************************)
(* Model of src/app.py, the options activity dashboard script.  One run of *)
(* the script is: the sidebar (watchlist, per-ticker expiration selection, *)
(* thresholds), the main processing loop over the watchlist, and the two   *)
(* tables.                                                                 *)
(*                                                                         *)
(* Numbers.  Volumes, open interest and strikes are integers.  A missing   *)
(* value (NaN / pd.NA / None) of an integer column is NA.  A float that is *)
(* the quotient of two integers is kept as the exact fraction [n, d]; the  *)
(* fraction with d = 0 is the missing float (NaN / pd.NA).  The thresholds *)
(* UNUSUAL_MIN, HIGH_MIN, EXTREME_MIN are kept in tenths (10 is 1.0).      *)
(***************************************************************************)
EXTENDS Integers, Sequences, FiniteSets, TLC

VARIABLES
    watchlist,        \* app.py:110  list of ticker symbols
    UNUSUAL_MIN,      \* app.py:145  in tenths
    HIGH_MIN,         \* app.py:146  in tenths
    EXTREME_MIN,      \* app.py:147  in tenths
    MIN_VOLUME,       \* app.py:148
    market,           \* what yfinance answers for each ticker during this run
    pc,               \* position in the script: "sidebar", "main", "tables", "done"
    idx,              \* position of the running for-loop in watchlist
    expiration_map,   \* app.py:126
    calls,            \* app.py:273  the frame bound to `calls` (as the caller sees it)
    puts,             \* app.py:273  the frame bound to `puts`
    annotated,        \* find_unusual's local df at app.py:215, <<for calls, for puts>>
    contract_results, \* app.py:256
    imbalance_rows,   \* app.py:257
    warnings,         \* tickers named by st.warning at app.py:300
    df,               \* app.py:317  the merged frame after sort_values
    table             \* app.py:350  the frame handed to st.dataframe

vars == <<watchlist, UNUSUAL_MIN, HIGH_MIN, EXTREME_MIN, MIN_VOLUME, market, pc, idx,
          expiration_map, calls, puts, annotated, contract_results, imbalance_rows,
          warnings, df, table>>

-----------------------------------------------------------------------------
(* Bounds of the model *)

MaxWatch == 2
MaxMinVolume == 2
MaxLen == 2
MaxVol == 3
MaxOI == 1
MaxBiasVol == 13
MaxThresholdSteps == 6

-----------------------------------------------------------------------------
(* Values *)

NA == -1
NaN == [n |-> 0, d |-> 0]
NoneExp == "None"

IsNA(x) == x.d = 0

\* Div with the missing quotient filled with zero (a fillna(0) on the ratio)
DivOrZero(a, b) == IF a = NA \/ b = NA THEN [n |-> 0, d |-> 1] ELSE [n |-> a, d |-> b]

\* a / b on two columns: missing if either side is missing
Div(a, b) == IF a = NA \/ b = NA THEN NaN ELSE [n |-> a, d |-> b]

\* x >= t / 10 for a defined fraction x with x.d > 0
GE10(x, t) == 10 * x.n >= t * x.d

Abs(x) == IF x < 0 THEN -x ELSE x

Symbols == <<"XLF", "SPXL", "TQQQ", "B", "BRK-B">>

Expirations == <<"2026-01-16", "2026-02-20">>

-----------------------------------------------------------------------------
(* The market-data collaborator (yfinance), as cached for the run           *)
(* market[t] = [spot, options, chain, raises]; raises names the one call    *)
(* that throws for this ticker, or "none".                                  *)

FaultPoints == {"none", "safe_options", "spot", "options", "chain", "volume", "calls", "puts"}

Raises(ticker, call) == market[ticker].raises = call

\* app.py:118-124: the except clause turns a failure into []
safe_get_expirations(ticker) ==
    IF Raises(ticker, "safe_options") THEN <<>> ELSE market[ticker].options

\* app.py:155-157
get_expirations(ticker) == market[ticker].options

\* app.py:159-162
load_chain(ticker, expiration) == market[ticker].chain[expiration]

\* app.py:164-167: None when the price history is empty
get_spot_price(ticker) == market[ticker].spot

-----------------------------------------------------------------------------
(* Data helpers *)

\* classify_activity with the High test ahead of the Extreme test
classify_activity_high_first(ratio) ==
    IF ratio.d = 0 THEN "Unknown"
    ELSE IF 10 * ratio.n >= HIGH_MIN * ratio.d THEN "High"
    ELSE IF 10 * ratio.n >= EXTREME_MIN * ratio.d THEN "Extreme"
    ELSE IF 10 * ratio.n >= UNUSUAL_MIN * ratio.d THEN "Unusual"
    ELSE "Normal"

\* app.py:169-178
classify_activity(ratio) ==
    IF IsNA(ratio) THEN "Unknown"
    ELSE IF GE10(ratio, EXTREME_MIN) THEN "Extreme"
    ELSE IF GE10(ratio, HIGH_MIN) THEN "High"
    ELSE IF GE10(ratio, UNUSUAL_MIN) THEN "Unusual"
    ELSE "Normal"

RECURSIVE SortAsc(_)
SortAsc(s) ==
    IF s = <<>> THEN <<>>
    ELSE LET k == CHOOSE k \in 1..Len(s) : \A j \in 1..Len(s) : s[k] <= s[j]
         IN  <<s[k]>> \o SortAsc(SubSeq(s, 1, k - 1) \o SubSeq(s, k + 1, Len(s)))

\* Median that takes the lower middle value of a column of even length
MedianLow(col) ==
    IF Len(col) = 0 THEN [n |-> 0, d |-> 0]
    ELSE [n |-> SortAsc(col)[(Len(col) + 1) \div 2], d |-> 1]

\* Series.median(): NaN of an empty column, the middle value, or the mean of
\* the two middle values
Median(col) ==
    LET n == Len(col)
        s == SortAsc(col)
    IN  IF n = 0 THEN NaN
        ELSE IF n % 2 = 1 THEN [n |-> s[(n + 1) \div 2], d |-> 1]
        ELSE [n |-> s[n \div 2] + s[n \div 2 + 1], d |-> 2]

\* app.py:180-185.  `median_vol and median_vol > 0`: 0.0 is falsy, NaN is
\* truthy but NaN > 0 is False
add_relative_volume(frame) ==
    LET median_vol == Median([k \in 1..Len(frame) |-> frame[k].volume])
        positive == ~IsNA(median_vol) /\ median_vol.n > 0
    IN  [k \in 1..Len(frame) |->
            [relative_volume |->
                IF positive
                THEN [n |-> frame[k].volume * median_vol.d, d |-> median_vol.n]
                ELSE NaN] @@ frame[k]]

\* DfCopy without the copy: the local name stays bound to the caller's frame
DfShare(frame) == [shared |-> TRUE, frame |-> frame]

\* app.py:196: df = df.copy() rebinds the local name to a frame of its own
DfCopy(frame) == [shared |-> FALSE, frame |-> frame]

\* app.py:198: fillna(0).astype(int)
FillVolume(v) == IF v = NA THEN 0 ELSE v

\* app.py:199: replace(0, pd.NA)
ReplaceZeroOI(oi) == IF oi = 0 THEN NA ELSE oi

\* app.py:209-215
Moneyness(option_type, strike, spot) ==
    IF option_type = "CALL"
    THEN (IF strike > spot THEN "OTM" ELSE IF strike < spot THEN "ITM" ELSE "ATM")
    ELSE (IF strike < spot THEN "OTM" ELSE IF strike > spot THEN "ITM" ELSE "ATM")

\* app.py:198-202: volume, openInterest, Vol / OI and Activity of one contract
BaseRow(row, volume, openInterest) ==
    [strike |-> row.strike,
     volume |-> volume,
     openInterest |-> openInterest,
     impliedVolatility |-> row.impliedVolatility,
     Vol_OI |-> Div(volume, openInterest),
     Activity |-> classify_activity(Div(volume, openInterest))]

\* app.py:206-215: Spot, % From Spot and Moneyness of one contract
SpotRow(row, option_type, spot) ==
    [Spot |-> spot,
     Pct_From_Spot |-> [n |-> Abs(row.strike - spot) * 100, d |-> spot],
     Moneyness |-> Moneyness(option_type, row.strike, spot)] @@ row

SpotColumns(frame, option_type, spot) ==
    [k \in 1..Len(frame) |-> SpotRow(frame[k], option_type, spot)]

\* app.py:198-215: the columns find_unusual writes into its df
Annotate(frame, option_type, spot) ==
    SpotColumns(
        add_relative_volume(
            [k \in 1..Len(frame) |->
                BaseRow(frame[k], FillVolume(frame[k].volume),
                        ReplaceZeroOI(frame[k].openInterest))]),
        option_type, spot)

\* KeepRow that also drops the contracts whose tier is Unknown
KeepRowKnown(row) == row.volume >= MIN_VOLUME /\ row.Activity \notin {"Normal", "Unknown"}

\* app.py:217-220
KeepRow(row) == row.volume >= MIN_VOLUME /\ row.Activity # "Normal"

RECURSIVE SelectRows(_)
SelectRows(frame) ==
    IF frame = <<>> THEN <<>>
    ELSE (IF KeepRow(Head(frame)) THEN <<Head(frame)>> ELSE <<>>) \o SelectRows(Tail(frame))

\* app.py:228: f"${x:,.2f}" of an integer strike below 1000
FormatStrike(x) == "$" \o ToString(x) \o ".00"

\* app.py:225-251
OutputRow(row, option_type, symbol, expiration) ==
    [Ticker |-> symbol,
     Type |-> option_type,
     Expiration |-> expiration,
     Strike |-> FormatStrike(row.strike),
     Spot |-> row.Spot,
     Pct_From_Spot |-> row.Pct_From_Spot,
     Moneyness |-> row.Moneyness,
     Volume |-> row.volume,
     Relative_Volume |-> row.relative_volume,
     Open_Interest |-> row.openInterest,
     Vol_OI |-> row.Vol_OI,
     Activity |-> row.Activity,
     Implied_Volatility |-> row.impliedVolatility]

OutputFrame(filtered, option_type, symbol, expiration) ==
    [k \in 1..Len(filtered) |-> OutputRow(filtered[k], option_type, symbol, expiration)]

\* What a call of find_unusual leaves.  caller: the frame the argument is
\* after the call; local: the function's df at line 215; result: the frame
\* returned (lines 217-251)
Returned(frame, shared, local, option_type, symbol, expiration) ==
    [caller |-> IF shared THEN local ELSE frame,
     local |-> local,
     result |-> OutputFrame(SelectRows(local), option_type, symbol, expiration)]

\* app.py:195-251
find_unusual(frame, option_type, symbol, expiration, spot) ==
    Returned(frame, DfCopy(frame).shared,
             Annotate(DfCopy(frame).frame, option_type, spot),
             option_type, symbol, expiration)

-----------------------------------------------------------------------------
(* Sidebar: expiration selection, app.py:126-141 *)

SeqToSet(s) == {s[k] : k \in 1..Len(s)}

\* dict.get: None for a key that is not there
MapGet(map, key) == IF key \in DOMAIN map THEN map[key] ELSE NoneExp

LoopExit(next) == IF idx = Len(watchlist) THEN next ELSE pc

LoopIndex == IF idx = Len(watchlist) THEN 1 ELSE idx + 1

\* one iteration of the loop at app.py:128-141; the selectbox answers with
\* any of the listed expirations (the first one unless the user chose)
SelectExpiration ==
    /\ pc = "sidebar"
    /\ LET symbol == watchlist[idx]
           expirations == safe_get_expirations(symbol)
       IN  IF expirations = <<>>
           THEN expiration_map' = (symbol :> NoneExp) @@ expiration_map
           ELSE \E choice \in SeqToSet(expirations) :
                    expiration_map' = (symbol :> choice) @@ expiration_map
    /\ idx' = LoopIndex
    /\ pc' = LoopExit("main")
    /\ UNCHANGED <<watchlist, UNUSUAL_MIN, HIGH_MIN, EXTREME_MIN, MIN_VOLUME, market,
                   calls, puts, annotated, contract_results, imbalance_rows, warnings,
                   df, table>>

-----------------------------------------------------------------------------
(* Main processing, app.py:256-300 *)

RECURSIVE VolumeSum(_)
\* app.py:275-276: frame["volume"].fillna(0).sum()
VolumeSum(frame) ==
    IF frame = <<>> THEN 0 ELSE FillVolume(Head(frame).volume) + VolumeSum(Tail(frame))

\* app.py:277: None (kept as the missing float) unless put_vol > 0
CallPutRatio(call_vol, put_vol) == IF put_vol > 0 THEN Div(call_vol, put_vol) ELSE NaN

\* FlowBias with the two boundaries included
FlowBiasInclusive(ratio) ==
    IF ratio.d = 0 THEN "Neutral"
    ELSE IF 10 * ratio.n >= 13 * ratio.d THEN "Call-heavy"
    ELSE IF 10 * ratio.n <= 7 * ratio.d THEN "Put-heavy"
    ELSE "Neutral"

\* app.py:280-285: ratio > 1.3, ratio < 0.7
FlowBias(ratio) ==
    IF IsNA(ratio) THEN "Neutral"
    ELSE IF 10 * ratio.n > 13 * ratio.d THEN "Call-heavy"
    ELSE IF 10 * ratio.n < 7 * ratio.d THEN "Put-heavy"
    ELSE "Neutral"

ImbalanceOf(symbol, expiration, call_vol, put_vol) ==
    [Ticker |-> symbol,
     Expiration |-> expiration,
     Call_Volume |-> call_vol,
     Put_Volume |-> put_vol,
     Call_Put_Ratio |-> CallPutRatio(call_vol, put_vol),
     Flow_Bias |-> FlowBias(CallPutRatio(call_vol, put_vol))]

\* app.py:275-294
ImbalanceRow(symbol, expiration, callFrame, putFrame) ==
    ImbalanceOf(symbol, expiration, VolumeSum(callFrame), VolumeSum(putFrame))

\* NoSpot that never skips
NoSpotIgnored(spot) == FALSE

\* app.py:262-271: the three `continue` tests, in the order the loop makes them
NoSpot(spot) == spot = NA

NoExpirations(expirations) == expirations = <<>>

NoSelection(expiration) == expiration = NoneExp

\* app.py:299-300
Except(s) == [s EXCEPT !.warned = TRUE]

\* app.py:297
PutsDone(s, fp) ==
    [s EXCEPT !.puts = fp.caller,
              !.annotated = <<@[1], fp.local>>,
              !.contract_results = Append(@, fp.result)]

FindPuts(s, symbol, expiration, spot) ==
    IF Raises(symbol, "puts") THEN Except(s)
    ELSE PutsDone(s, find_unusual(s.puts, "PUT", symbol, expiration, spot))

\* app.py:296
CallsDone(s, fc) ==
    [s EXCEPT !.calls = fc.caller,
              !.annotated = <<fc.local, @[2]>>,
              !.contract_results = Append(@, fc.result)]

FindCalls(s, symbol, expiration, spot) ==
    IF Raises(symbol, "calls") THEN Except(s)
    ELSE FindPuts(CallsDone(s, find_unusual(s.calls, "CALL", symbol, expiration, spot)),
                  symbol, expiration, spot)

\* app.py:275-294
Aggregate(s, symbol, expiration, spot) ==
    IF Raises(symbol, "volume") THEN Except(s)
    ELSE FindCalls([s EXCEPT !.imbalance_rows =
                        Append(@, ImbalanceRow(symbol, expiration, s.calls, s.puts))],
                   symbol, expiration, spot)

Bind(s, chain) == [s EXCEPT !.calls = chain.calls, !.puts = chain.puts]

\* app.py:269-273
LoadSelected(s, symbol, expiration, spot) ==
    IF NoSelection(expiration) THEN s
    ELSE IF Raises(symbol, "chain") THEN Except(s)
    ELSE Aggregate(Bind(s, load_chain(symbol, expiration)), symbol, expiration, spot)

\* app.py:265-267
CheckExpirations(s, symbol, spot) ==
    IF Raises(symbol, "options") THEN Except(s)
    ELSE IF NoExpirations(get_expirations(symbol)) THEN s
    ELSE LoadSelected(s, symbol, MapGet(expiration_map, symbol), spot)

\* app.py:261-263
CheckSpot(s, symbol, spot) ==
    IF NoSpot(spot) THEN s ELSE CheckExpirations(s, symbol, spot)

\* app.py:260-300: the body of the loop for one symbol, as the values the
\* loop's names have when the iteration ends; warned: the except clause ran
LoopBody(symbol) ==
    IF Raises(symbol, "spot")
    THEN Except([calls |-> calls, puts |-> puts, annotated |-> annotated,
                 contract_results |-> contract_results,
                 imbalance_rows |-> imbalance_rows, warned |-> FALSE])
    ELSE CheckSpot([calls |-> calls, puts |-> puts, annotated |-> annotated,
                    contract_results |-> contract_results,
                    imbalance_rows |-> imbalance_rows, warned |-> FALSE],
                   symbol, get_spot_price(symbol))

ProcessTicker ==
    /\ pc = "main"
    /\ \E end \in {LoopBody(watchlist[idx])} :
           /\ calls' = end.calls
           /\ puts' = end.puts
           /\ annotated' = end.annotated
           /\ contract_results' = end.contract_results
           /\ imbalance_rows' = end.imbalance_rows
           /\ warnings' = IF end.warned THEN Append(warnings, watchlist[idx])
                                        ELSE warnings
    /\ idx' = LoopIndex
    /\ pc' = LoopExit("tables")
    /\ UNCHANGED <<watchlist, UNUSUAL_MIN, HIGH_MIN, EXTREME_MIN, MIN_VOLUME, market,
                   expiration_map, df, table>>

-----------------------------------------------------------------------------
(* Tables, app.py:305-353 *)

RECURSIVE Concat(_)
\* app.py:312, 317: pd.concat of the frames that are not empty
Concat(frames) == IF frames = <<>> THEN <<>> ELSE Head(frames) \o Concat(Tail(frames))

\* a > b on two defined fractions
GT(a, b) == a.n * b.d > b.n * a.d

RECURSIVE IndicesWhere(_, _, _)
IndicesWhere(frame, k, missing) ==
    IF k > Len(frame) THEN <<>>
    ELSE (IF IsNA(frame[k].Vol_OI) = missing THEN <<k>> ELSE <<>>)
         \o IndicesWhere(frame, k + 1, missing)

\* The rows argsort may place next among the rows S still to place: every row
\* of the largest key.  sort_values is called without kind=, so the sort is
\* numpy's quicksort, which promises no order among equal keys.
ArgsortNext(frame, S) ==
    {j \in S : \A k \in S : ~GT(frame[k].Vol_OI, frame[j].Vol_OI)}

RECURSIVE Argsort(_, _)
Argsort(frame, S) ==
    IF S = {} THEN {<<>>}
    ELSE UNION {{<<j>> \o rest : rest \in Argsort(frame, S \ {j})} :
                    j \in ArgsortNext(frame, S)}

\* app.py:317: sort_values("Vol / OI", ascending=False), na_position "last":
\* the defined keys in descending order, then the rows whose key is missing in
\* the order they had.  The set of frames the call may return.
sort_values(frame) ==
    LET nans == IndicesWhere(frame, 1, TRUE)
    IN  {[k \in 1..Len(frame) |-> frame[(p \o nans)[k]]] :
            p \in Argsort(frame, SeqToSet(IndicesWhere(frame, 1, FALSE)))}

\* round(n / d) to the nearest integer, ties to even, as float formatting does
\* for the exactly representable ties
RoundHalfEven(n, d) ==
    LET q == n \div d
        r == n % d
    IN  IF 2 * r < d THEN q
        ELSE IF 2 * r > d THEN q + 1
        ELSE IF q % 2 = 0 THEN q ELSE q + 1

Dash == [text |-> "-"]

\* f"{x:.1f}", f"{x:.2f}": the number in units of 10^-digits; the dash for a
\* missing value
Fixed(x, digits) ==
    IF IsNA(x) THEN Dash
    ELSE [digits |-> digits,
          scaled |-> RoundHalfEven(x.n * (IF digits = 1 THEN 10 ELSE 100), x.d)]

\* app.py:335-341: .map(activity_display).fillna("Normal"); the three labels
\* carry a coloured square in the source
ActivityDisplay(activity) ==
    IF activity = "Extreme" THEN "[] Extreme"
    ELSE IF activity = "High" THEN "[] High"
    ELSE IF activity = "Unusual" THEN "[] Unusual"
    ELSE "Normal"

\* app.py:330-348: implied volatility is kept in hundredths of a percent, so
\* f"{x:.2%}" shows the stored number; spot is an integer price
DisplayRow(row) ==
    [row EXCEPT !.Activity = ActivityDisplay(@),
                !.Pct_From_Spot = [suffix |-> "%"] @@ Fixed(@, 1),
                !.Relative_Volume = Fixed(@, 1),
                !.Vol_OI = Fixed(@, 2),
                !.Implied_Volatility = IF @ = NA THEN Dash
                                       ELSE [digits |-> 2, scaled |-> @, suffix |-> "%"],
                !.Spot = FormatStrike(@)]

\* app.py:312: the frames that are not empty
RECURSIVE Valid(_)
Valid(frames) ==
    IF frames = <<>> THEN <<>>
    ELSE (IF Head(frames) # <<>> THEN <<Head(frames)>> ELSE <<>>) \o Valid(Tail(frames))

RenderTables ==
    /\ pc = "tables"
    /\ LET valid == Valid(contract_results)
       IN  IF valid # <<>>
           THEN \E sorted \in sort_values(Concat(valid)) :
                    /\ df' = sorted
                    /\ table' = [k \in 1..Len(sorted) |-> DisplayRow(sorted[k])]
           ELSE df' = <<>> /\ table' = <<>>
    /\ pc' = "done"
    /\ UNCHANGED <<watchlist, UNUSUAL_MIN, HIGH_MIN, EXTREME_MIN, MIN_VOLUME, market,
                   idx, expiration_map, calls, puts, annotated, contract_results,
                   imbalance_rows, warnings>>

Next == SelectExpiration \/ ProcessTicker \/ RenderTables

-----------------------------------------------------------------------------
(* The inputs of a run *)

RawRow(strike, volume, openInterest) ==
    [strike |-> strike, volume |-> volume, openInterest |-> openInterest,
     impliedVolatility |-> IF strike % 2 = 0 THEN NA ELSE 2500]

Nullable(max) == {NA} \cup 0..max

\* the chains of at most maxlen contracts, strikes 1, 2, ... in rising order
Chains(maxlen, volumes, interests) ==
    UNION {{[k \in 1..n |-> RawRow(k, f[k][1], f[k][2])] :
                f \in [1..n -> volumes \X interests]} : n \in 0..maxlen}

Listed(chain) == [spot |-> 2, options |-> <<Expirations[1]>>,
                  chain |-> (Expirations[1] :> chain), raises |-> "none"]

Sidebar(unusual, high, extreme, volume) ==
    /\ UNUSUAL_MIN = unusual
    /\ HIGH_MIN = high
    /\ EXTREME_MIN = extreme
    /\ MIN_VOLUME = volume

Start ==
    /\ pc = "sidebar"
    /\ idx = 1
    /\ expiration_map = <<>>
    /\ calls = <<>>
    /\ puts = <<>>
    /\ annotated = << <<>>, <<>> >>
    /\ contract_results = <<>>
    /\ imbalance_rows = <<>>
    /\ warnings = <<>>
    /\ df = <<>>
    /\ table = <<>>

\* Three fetched chains: equal ratios across sides, contracts without open
\* interest, a missing volume, an empty side
ChainA ==
    [calls |-> <<RawRow(1, 2, 1), RawRow(2, 3, 0), RawRow(3, 1, 2)>>,
     puts |-> <<RawRow(1, NA, 1), RawRow(2, 2, 1)>>]

ChainB ==
    [calls |-> <<>>,
     puts |-> <<RawRow(1, 3, NA), RawRow(2, 1, 1)>>]

ChainC ==
    [calls |-> <<RawRow(1, 1, 2), RawRow(2, 4, 2)>>,
     puts |-> <<RawRow(1, 0, 0)>>]

\* What yfinance may answer for one ticker of the watchlist: a chain with
\* each call that may throw, two listed expirations, no price, no expirations
TickerData ==
    {[Listed(ChainA) EXCEPT !.raises = r] : r \in FaultPoints}
    \cup {Listed(ChainB), Listed(ChainC)}
    \cup {[spot |-> 2, options |-> Expirations,
           chain |-> (Expirations[1] :> ChainB) @@ (Expirations[2] :> ChainC),
           raises |-> "none"]}
    \cup {[Listed(ChainA) EXCEPT !.spot = NA]}
    \cup {[spot |-> 2, options |-> <<>>, chain |-> <<>>, raises |-> "none"]}

\* the default thresholds of the sidebar, app.py:145-147
DefaultUnusual == 10
DefaultHigh == 15
DefaultExtreme == 30

\* the defaults, and a setting with HIGH_MIN = EXTREME_MIN
SidebarSettings ==
    {<<DefaultUnusual, DefaultHigh, DefaultExtreme>>,
     <<5, DefaultUnusual, DefaultUnusual>>}

Init ==
    /\ Start
    /\ \E n \in 1..MaxWatch : watchlist = SubSeq(Symbols, 1, n)
    /\ market \in [SeqToSet(watchlist) -> TickerData]
    /\ \E v \in 1..MaxMinVolume : \E t \in SidebarSettings :
          Sidebar(t[1], t[2], t[3], v)

Spec == Init /\ [][Next]_vars

OtherSide == <<RawRow(1, 2, 1), RawRow(2, 0, 0)>>

\* One ticker, every chain within the bounds on one side, a fixed chain on
\* the other
InitChain ==
    /\ Start
    /\ watchlist = <<Symbols[1]>>
    /\ \E full \in Chains(MaxLen, Nullable(MaxVol), Nullable(MaxOI)) :
       \E side \in BOOLEAN :
          market = (Symbols[1] :>
              Listed(IF side THEN [calls |-> full, puts |-> OtherSide]
                             ELSE [calls |-> OtherSide, puts |-> full]))
    /\ \E v \in {1, MaxMinVolume} : Sidebar(DefaultUnusual, DefaultHigh, DefaultExtreme, v)

SpecChain == InitChain /\ [][Next]_vars

\* One ticker, call and put totals up to MaxBiasVol + 1
BiasChains ==
    {<<>>} \cup {<<RawRow(1, v, 1)>> : v \in Nullable(MaxBiasVol)}
           \cup {<<RawRow(1, v, 1), RawRow(2, w, 0)>> : v \in 0..MaxBiasVol, w \in {NA, 1}}

InitBias ==
    /\ Start
    /\ watchlist = <<Symbols[1]>>
    /\ \E c \in BiasChains : \E p \in BiasChains :
          market = (Symbols[1] :> Listed([calls |-> c, puts |-> p]))
    /\ \E v \in 1..MaxMinVolume : Sidebar(DefaultUnusual, DefaultHigh, DefaultExtreme, v)

SpecBias == InitBias /\ [][Next]_vars

\* One ticker, two contracts a side, every ordered triple of thresholds that
\* are multiples of 0.5
ThresholdChoices == {5 * k : k \in 1..MaxThresholdSteps}

InitClassify ==
    /\ Start
    /\ watchlist = <<Symbols[1]>>
    /\ \E f \in [1..2 -> Nullable(MaxVol) \X Nullable(MaxOI + 1)] :
          LET pair == [k \in 1..2 |-> RawRow(k, f[k][1], f[k][2])]
          IN  market = (Symbols[1] :> Listed([calls |-> pair, puts |-> <<pair[2]>>]))
    /\ \E u \in ThresholdChoices : \E h \in ThresholdChoices : \E e \in ThresholdChoices :
          u <= h /\ h <= e /\ Sidebar(u, h, e, 1)

SpecClassify == InitClassify /\ [][Next]_vars

-----------------------------------------------------------------------------
(* Properties *)

Finished == pc \in {"tables", "done"}

Warned == SeqToSet(warnings)

Sides == <<"CALL", "PUT">>

\* the chain load_chain returned for an imbalance row's ticker
FetchedFor(row) == market[row.Ticker].chain[row.Expiration]

Filled(frame) == [k \in 1..Len(frame) |-> IF frame[k].volume = NA THEN 0 ELSE frame[k].volume]

RECURSIVE Total(_)
Total(col) == IF col = <<>> THEN 0 ELSE Head(col) + Total(Tail(col))

\* C1: a ticker whose fetch or computation failed (the except clause named it)
\* has no entry in imbalance_rows and none in contract_results; every other
\* ticker contributes one imbalance row and two frames or nothing.
C1_FailedTickerContributesNothing ==
    /\ \A j \in DOMAIN imbalance_rows : imbalance_rows[j].Ticker \notin Warned
    /\ \A f \in DOMAIN contract_results : \A k \in DOMAIN contract_results[f] :
          contract_results[f][k].Ticker \notin Warned
    /\ Len(contract_results) = 2 * Len(imbalance_rows)

\* the place of a row in the concatenation of the non-empty frames
PlaceIn(frame, row) == CHOOSE k \in DOMAIN frame : frame[k] = row

\* C2: the merged frame is non-increasing in Vol / OI over the defined values,
\* the rows with a missing Vol / OI come last, and rows with equal Vol / OI
\* (and the missing ones among themselves) keep the order of the concatenation.
C2_SortedDescendingStable ==
    pc = "done" =>
        LET merged == Concat(Valid(contract_results))
        IN  /\ Len(df) = Len(merged)
            /\ \A a \in DOMAIN df : \A b \in DOMAIN df :
                  a < b =>
                    LET x == df[a].Vol_OI
                        y == df[b].Vol_OI
                    IN  /\ (x.d = 0) => (y.d = 0)
                        /\ (x.d > 0 /\ y.d > 0) => x.n * y.d >= y.n * x.d
                        /\ ((x.d = 0 /\ y.d = 0)
                              \/ (x.d > 0 /\ y.d > 0 /\ x.n * y.d = y.n * x.d))
                             => PlaceIn(merged, df[a]) < PlaceIn(merged, df[b])

\* C3: a contract of a successfully processed ticker with openInterest 0 and
\* volume >= MIN_VOLUME is in the table that is shown, with tier Unknown.
C3_UnknownTierShown ==
    pc = "done" =>
        \A j \in DOMAIN imbalance_rows :
            imbalance_rows[j].Ticker \notin Warned =>
                \A s \in 1..2 :
                    LET frame == IF s = 1 THEN FetchedFor(imbalance_rows[j]).calls
                                          ELSE FetchedFor(imbalance_rows[j]).puts
                    IN  \A k \in DOMAIN frame :
                            (frame[k].openInterest = 0 /\ frame[k].volume >= MIN_VOLUME) =>
                                \E m \in DOMAIN table :
                                    /\ table[m].Ticker = imbalance_rows[j].Ticker
                                    /\ table[m].Type = Sides[s]
                                    /\ table[m].Strike = FormatStrike(frame[k].strike)
                                    /\ table[m].Activity = "Unknown"

KeptIndices(frame) ==
    {k \in DOMAIN frame : frame[k].volume >= MIN_VOLUME /\ frame[k].Activity # "Normal"}

\* C4: the frame find_unusual returns for a side holds exactly the contracts
\* of the annotated chain with volume >= MIN_VOLUME and a tier other than
\* Normal, in chain order; an empty chain or an empty selection gives an empty
\* frame and no failure.
C4_FilterExact ==
    Finished =>
        /\ warnings = <<>>
        /\ Len(contract_results) = 2
        /\ \A s \in 1..2 :
              LET kept == KeptIndices(annotated[s])
              IN  /\ Len(contract_results[s]) = Cardinality(kept)
                  /\ \A k \in kept :
                        LET out == contract_results[s][Cardinality({j \in kept : j <= k})]
                        IN  /\ out.Strike = FormatStrike(annotated[s][k].strike)
                            /\ out.Type = Sides[s]
                            /\ out.Volume = annotated[s][k].volume
                            /\ out.Open_Interest = annotated[s][k].openInterest
                            /\ out.Vol_OI = annotated[s][k].Vol_OI
                            /\ out.Activity = annotated[s][k].Activity

C4_Witness ==
    /\ pc = "done"
    /\ \E s \in 1..2 :
          /\ contract_results[s] # <<>>
          /\ Len(contract_results[s]) < Len(annotated[s])
          /\ \E k \in DOMAIN annotated[s] :
                annotated[s][k].Activity = "Unknown" /\ k \in KeptIndices(annotated[s])

\* a ticker without a spot price, without expirations or without a selected
\* expiration
NoData(ticker) ==
    \/ market[ticker].spot = NA
    \/ market[ticker].options = <<>>
    \/ MapGet(expiration_map, ticker) = NoneExp

\* a ticker whose spot, expiration or chain lookup throws
FetchFailure(ticker) == market[ticker].raises \in {"spot", "options", "chain"}

Skipped ==
    /\ contract_results' = contract_results
    /\ imbalance_rows' = imbalance_rows
    /\ idx' = (IF idx = Len(watchlist) THEN 1 ELSE idx + 1)
    /\ pc' = (IF idx = Len(watchlist) THEN "tables" ELSE "main")

\* C5: the iteration of a ticker without data adds nothing to contract_results
\* and nothing to imbalance_rows, warns of nothing unless a lookup threw, and
\* the loop goes on to the next ticker; the iteration of a ticker whose fetch
\* fails leaves the two lists and the loop the same way.
C5_NoDataSkipped ==
    [][(pc = "main" /\ (NoData(watchlist[idx]) \/ FetchFailure(watchlist[idx])))
         => /\ Skipped
            /\ (NoData(watchlist[idx]) /\ ~FetchFailure(watchlist[idx]))
                   => warnings' = warnings]_vars

C5_Witness ==
    /\ pc = "done"
    /\ Len(watchlist) >= 2
    /\ market[watchlist[1]].spot = NA
    /\ watchlist[1] \notin Warned
    /\ Len(imbalance_rows) = 1
    /\ imbalance_rows[1].Ticker = watchlist[2]
    /\ Len(contract_results) = 2

\* C6: the bias of an imbalance row is Call-heavy iff putVolume > 0 and
\* callVolume / putVolume > 1.3, Put-heavy iff putVolume > 0 and
\* callVolume / putVolume < 0.7, and Neutral otherwise.
C6_BiasBoundaries ==
    \A j \in DOMAIN imbalance_rows :
        LET c == imbalance_rows[j].Call_Volume
            p == imbalance_rows[j].Put_Volume
            bias == imbalance_rows[j].Flow_Bias
        IN  /\ c = Total(Filled(FetchedFor(imbalance_rows[j]).calls))
            /\ p = Total(Filled(FetchedFor(imbalance_rows[j]).puts))
            /\ bias \in {"Call-heavy", "Put-heavy", "Neutral"}
            /\ (bias = "Call-heavy") <=> (p > 0 /\ 10 * c > 13 * p)
            /\ (bias = "Put-heavy") <=> (p > 0 /\ 10 * c < 7 * p)
            /\ (imbalance_rows[j].Call_Put_Ratio.d = 0) <=> (p = 0)

C6_Witness ==
    /\ \E j \in DOMAIN imbalance_rows :
          /\ imbalance_rows[j].Call_Volume = 13
          /\ imbalance_rows[j].Put_Volume = 10
          /\ imbalance_rows[j].Flow_Bias = "Neutral"

TierRank(tier) ==
    CASE tier = "Normal" -> 0
      [] tier = "Unusual" -> 1
      [] tier = "High" -> 2
      [] tier = "Extreme" -> 3
      [] OTHER -> -1

AnnotatedRows == SeqToSet(annotated[1]) \cup SeqToSet(annotated[2])

\* C7: with UNUSUAL_MIN <= HIGH_MIN <= EXTREME_MIN, a contract with the larger
\* defined Vol / OI never has the lower tier, and the tier is the first match
\* of: missing -> Unknown, >= EXTREME_MIN -> Extreme, >= HIGH_MIN -> High,
\* >= UNUSUAL_MIN -> Unusual, else Normal.
C7_ClassifyMonotone ==
    (UNUSUAL_MIN <= HIGH_MIN /\ HIGH_MIN <= EXTREME_MIN) =>
        /\ \A x \in AnnotatedRows : \A y \in AnnotatedRows :
              (x.Vol_OI.d > 0 /\ y.Vol_OI.d > 0
                 /\ x.Vol_OI.n * y.Vol_OI.d <= y.Vol_OI.n * x.Vol_OI.d)
                => TierRank(x.Activity) <= TierRank(y.Activity)
        /\ \A x \in AnnotatedRows :
              LET r == x.Vol_OI
              IN  /\ (x.Activity = "Unknown") <=> (r.d = 0)
                  /\ (x.Activity = "Extreme") <=> (r.d > 0 /\ 10 * r.n >= EXTREME_MIN * r.d)
                  /\ (x.Activity = "High") <=>
                        (r.d > 0 /\ 10 * r.n < EXTREME_MIN * r.d /\ 10 * r.n >= HIGH_MIN * r.d)
                  /\ (x.Activity = "Unusual") <=>
                        (r.d > 0 /\ 10 * r.n < HIGH_MIN * r.d /\ 10 * r.n >= UNUSUAL_MIN * r.d)
                  /\ (x.Activity = "Normal") <=> (r.d > 0 /\ 10 * r.n < UNUSUAL_MIN * r.d)

C7_Witness ==
    /\ UNUSUAL_MIN < HIGH_MIN
    /\ HIGH_MIN < EXTREME_MIN
    /\ Len(annotated[1]) = 2
    /\ annotated[1][1].Activity = "High"
    /\ annotated[1][2].Activity = "Extreme"
    /\ annotated[2][1].Activity = "Extreme"

RawSide(s) == IF s = 1 THEN calls ELSE puts

\* C8: for every contract find_unusual annotates, Vol / OI is defined iff
\* openInterest > 0 and is then volume / openInterest with a missing volume
\* counted as 0; it is missing, never zero, when openInterest is 0 or missing,
\* up to the frame that is ranked and the table that is shown; the tier is
\* Unknown iff Vol / OI is missing.
C8_VolOIDefinedIffOpenInterest ==
    Finished =>
        /\ \A s \in 1..2 :
              /\ Len(annotated[s]) = Len(RawSide(s))
              /\ \A k \in DOMAIN annotated[s] :
                    LET raw == RawSide(s)[k]
                        ratio == annotated[s][k].Vol_OI
                    IN  /\ (ratio.d > 0) <=> (raw.openInterest > 0)
                        /\ (raw.openInterest > 0) =>
                              /\ ratio.d = raw.openInterest
                              /\ ratio.n = Filled(RawSide(s))[k]
                        /\ (raw.openInterest <= 0) => ratio = NaN
                        /\ (annotated[s][k].Activity = "Unknown") <=> (ratio.d = 0)
        /\ \A m \in DOMAIN df :
              /\ (df[m].Open_Interest = NA) <=> (df[m].Vol_OI = NaN)
              /\ (df[m].Open_Interest = NA) <=> (table[m].Vol_OI = Dash)
              /\ (df[m].Open_Interest = NA) <=> (df[m].Activity = "Unknown")

C8_Witness ==
    /\ pc = "done"
    /\ \E s \in 1..2 : \E k \in DOMAIN annotated[s] : \E j \in DOMAIN annotated[s] :
          /\ RawSide(s)[k].openInterest = 0
          /\ RawSide(s)[k].volume >= MIN_VOLUME
          /\ RawSide(s)[j].openInterest > 0
          /\ RawSide(s)[j].volume = NA
          /\ annotated[s][j].Vol_OI = [n |-> 0, d |-> RawSide(s)[j].openInterest]
    /\ \E m \in DOMAIN table : table[m].Vol_OI = Dash

CountBelow(col, x) == Cardinality({j \in DOMAIN col : col[j] < x})

CountUpTo(col, x) == Cardinality({j \in DOMAIN col : col[j] <= x})

\* the k-th smallest value of a column
OrderStatistic(col, k) ==
    CHOOSE x \in SeqToSet(col) : CountBelow(col, x) < k /\ CountUpTo(col, x) >= k

\* twice the median of a column that is not empty
TwiceMedian(col) ==
    OrderStatistic(col, (Len(col) + 1) \div 2) + OrderStatistic(col, Len(col) \div 2 + 1)

\* C9: on each side chain taken alone and before filtering, relative_volume of
\* every contract is volume / median(volume of the side chain) when the median
\* is > 0 and missing for every contract otherwise; equal nonzero volumes give
\* relative_volume 1 for every contract.
C9_RelativeVolumePerSide ==
    Finished =>
        \A s \in 1..2 :
            LET col == Filled(RawSide(s))
                twice == IF col = <<>> THEN 0 ELSE TwiceMedian(col)
            IN  /\ Len(annotated[s]) = Len(col)
                /\ \A k \in DOMAIN annotated[s] :
                      LET rel == annotated[s][k].relative_volume
                      IN  /\ (twice > 0) =>
                                /\ rel.d > 0
                                /\ rel.n * twice = 2 * col[k] * rel.d
                          /\ (twice = 0) => rel = NaN
                          /\ (col[k] > 0 /\ \A j \in DOMAIN col : col[j] = col[k])
                                => (rel.d > 0 /\ rel.n = rel.d)
                /\ \A m \in DOMAIN contract_results[s] :
                      \E k \in DOMAIN annotated[s] :
                          /\ contract_results[s][m].Strike = FormatStrike(annotated[s][k].strike)
                          /\ contract_results[s][m].Relative_Volume
                                = annotated[s][k].relative_volume

C9_Witness ==
    /\ pc = "done"
    /\ \E s \in 1..2 :
          /\ Len(annotated[s]) = 2
          /\ annotated[s][1].volume = 1
          /\ annotated[s][2].volume = 2
          /\ annotated[s][1].relative_volume = [n |-> 2, d |-> 3]
          /\ Len(contract_results[s]) = 1
          /\ annotated[3 - s] # <<>>
          /\ annotated[3 - s][1].relative_volume # annotated[s][1].relative_volume

\* C10: the frames bound to calls and puts are the chain as load_chain
\* returned it, also after find_unusual has run on them; every imbalance row
\* is a function of the raw volumes of its ticker's chain alone, whatever
\* MIN_VOLUME and the thresholds are and whatever the filter kept.
C10_RawChainUntouched ==
    /\ \/ calls = <<>> /\ puts = <<>>
       \/ \E t \in DOMAIN market : \E e \in DOMAIN market[t].chain :
             calls = market[t].chain[e].calls /\ puts = market[t].chain[e].puts
    /\ \A j \in DOMAIN imbalance_rows :
          LET c == Total(Filled(FetchedFor(imbalance_rows[j]).calls))
              p == Total(Filled(FetchedFor(imbalance_rows[j]).puts))
          IN  imbalance_rows[j] =
                [Ticker |-> imbalance_rows[j].Ticker,
                 Expiration |-> imbalance_rows[j].Expiration,
                 Call_Volume |-> c,
                 Put_Volume |-> p,
                 Call_Put_Ratio |-> IF p > 0 THEN [n |-> c, d |-> p] ELSE NaN,
                 Flow_Bias |-> IF p > 0 /\ 10 * c > 13 * p THEN "Call-heavy"
                               ELSE IF p > 0 /\ 10 * c < 7 * p THEN "Put-heavy"
                               ELSE "Neutral"]

C10_Witness ==
    /\ pc = "done"
    /\ Len(watchlist) = 1
    /\ Len(imbalance_rows) = 1
    /\ Len(contract_results) = 2
    /\ MIN_VOLUME = 2
    /\ \E k \in DOMAIN puts : puts[k].volume = NA
    /\ \E k \in DOMAIN calls : calls[k].openInterest = 0
    /\ Len(contract_results[1]) < Len(calls)
    /\ Len(contract_results[2]) < Len(puts)
    /\ contract_results[1] # <<>>

====
